---------------------------- MODULE Spec2Model ----------------------------
(***************************************************************************)
(* Simplex noise (src/simplex.py): the 2D, 3D and 4D raw kernels, the      *)
(* range-scaled wrappers and the multi-octave compositors.                 *)
(*                                                                         *)
(* Every function of the library is pure and sequential.  The state       *)
(* machine is a caller that invokes one function with arguments drawn from *)
(* bounded sets and follows the call through its code: pc is the position  *)
(* in the code, loc holds the locals of the raw kernel evaluation in       *)
(* progress (cell indices, fractional offsets, corner offsets, table       *)
(* indices), oct the locals of the compositor loop, ret the outcome.       *)
(*                                                                         *)
(* Python floats are modelled as fixed-point numbers: the integer n stands *)
(* for the float n / Den.  Sums and differences are exact; a product, a    *)
(* quotient or a square root rounds its exact result to the nearest        *)
(* multiple of 1/Den, the way an IEEE operation rounds to the nearest      *)
(* representable value.  Python ints are unbounded integers.               *)
(***************************************************************************)
EXTENDS Integers, Sequences, FiniteSets, TLC

VARIABLES
  pc,      \* position: "idle", "cell", "corners", "sum", "loop",
           \* "accumulate", "divide", "remap", "done"
  fn,      \* name of the function that was called ("" when idle)
  args,    \* its arguments, in source order
  loc,     \* locals of the raw kernel evaluation in progress (or last made)
  oct,     \* locals of the compositor loop
  ret,     \* outcome: [kind |-> "value" or an exception name, val |-> float]
  prev     \* locals of the raw kernel call completed before this one

vars == <<pc, fn, args, loc, oct, ret, prev>>

----------------------------------------------------------------------------
(* Bounds of the model *)

\* Resolution of the modelled floats: n stands for n / Den.
Den == 1024

\* Largest octave count passed to the compositors (the smallest is -1).
MaxOctaves == 3

\* Small-grid coordinates range over -GridSpan .. GridSpan steps.
GridSpan == 2

----------------------------------------------------------------------------
(* Float and int arithmetic *)

Abs(n) == IF n < 0 THEN -n ELSE n

\* n / d rounded to the nearest integer, halves away from zero (d # 0).
RoundDiv(n, d) ==
  LET q == (2 * Abs(n) + Abs(d)) \div (2 * Abs(d))
  IN  IF (n < 0) = (d < 0) THEN q ELSE -q

\* The float literal n/d, and the float of a Python int.
Q(n, d) == RoundDiv(n * Den, d)
FromInt(i) == i * Den

\* float * float, float / float (non-zero divisor), math.sqrt.
FMul(a, b) == RoundDiv(a * b, Den)
FDiv(a, b) == RoundDiv(a * Den, b)
FSqrt(a) ==
  CHOOSE r \in 0 .. (a + Den) :
    /\ (2 * r - 1) * (2 * r - 1) <= 4 * a * Den
    /\ 4 * a * Den < (2 * r + 1) * (2 * r + 1)

\* Faulty variant of PyDiv: IEEE division, where x/0 is an infinity or a NaN.
PyDivIEEE(a, b) ==
  IF b = 0 THEN [kind |-> IF a = 0 THEN "nan" ELSE "inf", val |-> 0]
           ELSE [kind |-> "value", val |-> FDiv(a, b)]

\* Python's "/" on floats: a zero divisor raises ZeroDivisionError.
PyDiv(a, b) ==
  IF b = 0 THEN [kind |-> "ZeroDivisionError", val |-> 0]
           ELSE [kind |-> "value", val |-> FDiv(a, b)]

\* Python's int(float): the fractional part is discarded (toward zero).
int(v) == IF v >= 0 THEN v \div Den ELSE -((-v) \div Den)

\* math.floor, for reference: the greatest integer not above v.
Floor(v) == v \div Den

\* Faulty variants of Mask255: no masking at all; a remainder modulo 255.
MaskNone(i) == i
MaskMod255(i) == i % 255

\* Python's "& 255" on an unbounded two's-complement int: the low 8 bits.
Mask255(i) == i % 256

----------------------------------------------------------------------------
(* Constant tables *)

\* The gradients are the midpoints of the vertices of a cube (12 entries).
_grad3 ==
  <<<<1,1,0>>, <<-1,1,0>>, <<1,-1,0>>, <<-1,-1,0>>,
    <<1,0,1>>, <<-1,0,1>>, <<1,0,-1>>, <<-1,0,-1>>,
    <<0,1,1>>, <<0,-1,1>>, <<0,1,-1>>, <<0,-1,-1>> >>

\* The 4D gradients (32 entries).
_grad4 ==
  <<<<0,1,1,1>>, <<0,1,1,-1>>, <<0,1,-1,1>>, <<0,1,-1,-1>>,
    <<0,-1,1,1>>, <<0,-1,1,-1>>, <<0,-1,-1,1>>, <<0,-1,-1,-1>>,
    <<1,0,1,1>>, <<1,0,1,-1>>, <<1,0,-1,1>>, <<1,0,-1,-1>>,
    <<-1,0,1,1>>, <<-1,0,1,-1>>, <<-1,0,-1,1>>, <<-1,0,-1,-1>>,
    <<1,1,0,1>>, <<1,1,0,-1>>, <<1,-1,0,1>>, <<1,-1,0,-1>>,
    <<-1,1,0,1>>, <<-1,1,0,-1>>, <<-1,-1,0,1>>, <<-1,-1,0,-1>>,
    <<1,1,1,0>>, <<1,1,-1,0>>, <<1,-1,1,0>>, <<1,-1,-1,0>>,
    <<-1,1,1,0>>, <<-1,1,-1,0>>, <<-1,-1,1,0>>, <<-1,-1,-1,0>> >>

\* Permutation table: the same 256 values repeated twice (512 entries).
_perm ==
  <<151, 160, 137, 91, 90, 15, 131, 13, 201, 95, 96, 53, 194, 233, 7, 225, 140, 36, 103, 30, 69, 142,
    8, 99, 37, 240, 21, 10, 23, 190, 6, 148, 247, 120, 234, 75, 0, 26, 197, 62, 94, 252, 219, 203,
    117, 35, 11, 32, 57, 177, 33, 88, 237, 149, 56, 87, 174, 20, 125, 136, 171, 168, 68, 175, 74, 165,
    71, 134, 139, 48, 27, 166, 77, 146, 158, 231, 83, 111, 229, 122, 60, 211, 133, 230, 220, 105, 92, 41,
    55, 46, 245, 40, 244, 102, 143, 54, 65, 25, 63, 161, 1, 216, 80, 73, 209, 76, 132, 187, 208, 89,
    18, 169, 200, 196, 135, 130, 116, 188, 159, 86, 164, 100, 109, 198, 173, 186, 3, 64, 52, 217, 226, 250,
    124, 123, 5, 202, 38, 147, 118, 126, 255, 82, 85, 212, 207, 206, 59, 227, 47, 16, 58, 17, 182, 189,
    28, 42, 223, 183, 170, 213, 119, 248, 152, 2, 44, 154, 163, 70, 221, 153, 101, 155, 167, 43, 172, 9,
    129, 22, 39, 253, 19, 98, 108, 110, 79, 113, 224, 232, 178, 185, 112, 104, 218, 246, 97, 228, 251, 34,
    242, 193, 238, 210, 144, 12, 191, 179, 162, 241, 81, 51, 145, 235, 249, 14, 239, 107, 49, 192, 214, 31,
    181, 199, 106, 157, 184, 84, 204, 176, 115, 121, 50, 45, 127, 4, 150, 254, 138, 236, 205, 93, 222, 114,
    67, 29, 24, 72, 243, 141, 128, 195, 78, 66, 215, 61, 156, 180, 151, 160, 137, 91, 90, 15, 131, 13,
    201, 95, 96, 53, 194, 233, 7, 225, 140, 36, 103, 30, 69, 142, 8, 99, 37, 240, 21, 10, 23, 190,
    6, 148, 247, 120, 234, 75, 0, 26, 197, 62, 94, 252, 219, 203, 117, 35, 11, 32, 57, 177, 33, 88,
    237, 149, 56, 87, 174, 20, 125, 136, 171, 168, 68, 175, 74, 165, 71, 134, 139, 48, 27, 166, 77, 146,
    158, 231, 83, 111, 229, 122, 60, 211, 133, 230, 220, 105, 92, 41, 55, 46, 245, 40, 244, 102, 143, 54,
    65, 25, 63, 161, 1, 216, 80, 73, 209, 76, 132, 187, 208, 89, 18, 169, 200, 196, 135, 130, 116, 188,
    159, 86, 164, 100, 109, 198, 173, 186, 3, 64, 52, 217, 226, 250, 124, 123, 5, 202, 38, 147, 118, 126,
    255, 82, 85, 212, 207, 206, 59, 227, 47, 16, 58, 17, 182, 189, 28, 42, 223, 183, 170, 213, 119, 248,
    152, 2, 44, 154, 163, 70, 221, 153, 101, 155, 167, 43, 172, 9, 129, 22, 39, 253, 19, 98, 108, 110,
    79, 113, 224, 232, 178, 185, 112, 104, 218, 246, 97, 228, 251, 34, 242, 193, 238, 210, 144, 12, 191, 179,
    162, 241, 81, 51, 145, 235, 249, 14, 239, 107, 49, 192, 214, 31, 181, 199, 106, 157, 184, 84, 204, 176,
    115, 121, 50, 45, 127, 4, 150, 254, 138, 236, 205, 93, 222, 114, 67, 29, 24, 72, 243, 141, 128, 195,
    78, 66, 215, 61, 156, 180 >>

\* Lookup table to traverse the simplex around a given point in 4D (64 entries).
_simplex ==
  <<<<0,1,2,3>>, <<0,1,3,2>>, <<0,0,0,0>>, <<0,2,3,1>>, <<0,0,0,0>>, <<0,0,0,0>>, <<0,0,0,0>>, <<1,2,3,0>>,
    <<0,2,1,3>>, <<0,0,0,0>>, <<0,3,1,2>>, <<0,3,2,1>>, <<0,0,0,0>>, <<0,0,0,0>>, <<0,0,0,0>>, <<1,3,2,0>>,
    <<0,0,0,0>>, <<0,0,0,0>>, <<0,0,0,0>>, <<0,0,0,0>>, <<0,0,0,0>>, <<0,0,0,0>>, <<0,0,0,0>>, <<0,0,0,0>>,
    <<1,2,0,3>>, <<0,0,0,0>>, <<1,3,0,2>>, <<0,0,0,0>>, <<0,0,0,0>>, <<0,0,0,0>>, <<2,3,0,1>>, <<2,3,1,0>>,
    <<1,0,2,3>>, <<1,0,3,2>>, <<0,0,0,0>>, <<0,0,0,0>>, <<0,0,0,0>>, <<2,0,3,1>>, <<0,0,0,0>>, <<2,1,3,0>>,
    <<0,0,0,0>>, <<0,0,0,0>>, <<0,0,0,0>>, <<0,0,0,0>>, <<0,0,0,0>>, <<0,0,0,0>>, <<0,0,0,0>>, <<0,0,0,0>>,
    <<2,0,1,3>>, <<0,0,0,0>>, <<0,0,0,0>>, <<0,0,0,0>>, <<3,0,1,2>>, <<3,0,2,1>>, <<0,0,0,0>>, <<3,1,2,0>>,
    <<2,1,0,3>>, <<0,0,0,0>>, <<0,0,0,0>>, <<0,0,0,0>>, <<3,1,0,2>>, <<0,0,0,0>>, <<3,2,0,1>>, <<3,2,1,0>> >>

\* Python list indexing of _perm: 0..511 direct, -512..-1 from the end;
\* any other index raises IndexError (PermOk is FALSE, the value is unused).
PermOk(idx) == idx \in -512 .. 511

\* A table read whose upper half is not a copy of the lower half.
PermAtUnmirrored(idx) ==
  IF idx \in 0 .. 255 THEN _perm[idx + 1]
  ELSE IF idx \in 256 .. 511 THEN (_perm[idx + 1] + 1) % 256
  ELSE IF idx \in -512 .. -1 THEN _perm[idx + 513]
  ELSE 0

PermAt(idx) ==
  IF idx \in 0 .. 511 THEN _perm[idx + 1]
  ELSE IF idx \in -512 .. -1 THEN _perm[idx + 513]
  ELSE 0

dot2d(g, x, y) == g[1] * x + g[2] * y
dot3d(g, x, y, z) == g[1] * x + g[2] * y + g[3] * z
dot4d(g, x, y, z, w) == g[1] * x + g[2] * y + g[3] * z + g[4] * w

\* Locals of a raw kernel evaluation: the coordinates it was given (in), the
\* skewed coordinates, the cell indices (i, j, ...), the fractional offsets
\* (x0, y0, ...), the 4D comparison index c, the integer offsets of the
\* corners, the offsets of the point from each corner (disp), the _perm
\* indices read, the gradient indices (gi0, ...) and the value returned.
NoLoc ==
  [dim |-> 0, in |-> <<>>, skewed |-> <<>>, idx |-> <<>>, off |-> <<>>,
   c |-> 0, corners |-> <<>>, disp |-> <<>>, permIdx |-> <<>>, gi |-> <<>>,
   val |-> 0]

Value(v) == [kind |-> "value", val |-> v]
NoRet == [kind |-> "none", val |-> 0]

\* Outcome of a raw kernel evaluation with locals k.
KernelOutcome(k) ==
  IF \A n \in 1 .. Len(k.permIdx) : PermOk(k.permIdx[n])
  THEN Value(k.val) ELSE [kind |-> "IndexError", val |-> 0]

----------------------------------------------------------------------------
(* raw_noise_2d *)

F2 == FMul(Q(1, 2), FSqrt(FromInt(3)) - FromInt(1))
G2 == FDiv(FromInt(3) - FSqrt(FromInt(3)), FromInt(6))

\* Skew to the cell origin, unskew, offsets from the cell origin.
Cell2(x, y) ==
  LET s == FMul(x + y, F2)
      i == int(x + s)
      j == int(y + s)
      t == FMul(FromInt(i + j), G2)
  IN  [skewed |-> <<x + s, y + s>>, idx |-> <<i, j>>,
       off |-> <<x - (FromInt(i) - t), y - (FromInt(j) - t)>>]

\* Offsets of the middle corner in (i,j) coords.
Middle2(x0, y0) == IF x0 > y0 THEN <<1, 0>> ELSE <<0, 1>>

Corners2(off) == << <<0, 0>>, Middle2(off[1], off[2]), <<1, 1>> >>

\* Offsets from corner n (0, 1, 2) in (x,y) coords: v - cn + n*G2.
Shift2(v, cn, n) ==
  << v[1] - FromInt(cn[1]) + FMul(FromInt(n), G2),
     v[2] - FromInt(cn[2]) + FMul(FromInt(n), G2) >>

Disp2(off, cs) ==
  << off, Shift2(off, cs[2], 1), Shift2(off, cs[3], 2) >>

\* _perm indices read for the corner (ii+a, jj+b), innermost first.
Chain2(ii, jj, a, b) ==
  << jj + b, ii + a + PermAt(jj + b) >>

\* Hashed gradient indices of the three corners.
Hash2(idx, cs) ==
  LET ii == Mask255(idx[1])
      jj == Mask255(idx[2])
      h  == [n \in 1 .. 3 |-> Chain2(ii, jj, cs[n][1], cs[n][2])]
  IN  [permIdx |-> h[1] \o h[2] \o h[3],
       gi |-> << PermAt(h[1][2]) % 12, PermAt(h[2][2]) % 12,
                 PermAt(h[3][2]) % 12 >>]

\* One corner's contribution, 2D: t = 0.5 - x*x - y*y.
Contrib2(gi, d) ==
  LET t == Q(1, 2) - FMul(d[1], d[1]) - FMul(d[2], d[2])
  IN  IF t < 0 THEN 0
      ELSE FMul(FMul(FMul(t, t), FMul(t, t)),
                dot2d(_grad3[gi + 1], d[1], d[2]))

Sum2(gi, disp) ==
  FMul(FromInt(70),
       Contrib2(gi[1], disp[1]) + Contrib2(gi[2], disp[2])
       + Contrib2(gi[3], disp[3]))

----------------------------------------------------------------------------
(* raw_noise_3d *)

F3 == FDiv(FromInt(1), FromInt(3))
G3 == FDiv(FromInt(1), FromInt(6))

Cell3(x, y, z) ==
  LET s == FMul(x + y + z, F3)
      i == int(x + s)
      j == int(y + s)
      k == int(z + s)
      t == FMul(FromInt(i + j + k), G3)
  IN  [skewed |-> <<x + s, y + s, z + s>>, idx |-> <<i, j, k>>,
       off |-> <<x - (FromInt(i) - t), y - (FromInt(j) - t),
                 z - (FromInt(k) - t)>>]

\* Faulty variant of Order3: the Z X Y branch repeats the Z Y X offsets.
Order3Copied(x0, y0, z0) ==
  IF x0 >= y0
  THEN IF y0 >= z0 THEN << <<1, 0, 0>>, <<1, 1, 0>> >>
       ELSE IF x0 >= z0 THEN << <<1, 0, 0>>, <<1, 0, 1>> >>
       ELSE << <<0, 0, 1>>, <<0, 1, 1>> >>
  ELSE IF y0 < z0 THEN << <<0, 0, 1>>, <<0, 1, 1>> >>
       ELSE IF x0 < z0 THEN << <<0, 1, 0>>, <<0, 1, 1>> >>
       ELSE << <<0, 1, 0>>, <<1, 1, 0>> >>

\* Offsets of the second and third corners in (i,j,k) coords.
Order3(x0, y0, z0) ==
  IF x0 >= y0
  THEN IF y0 >= z0 THEN << <<1, 0, 0>>, <<1, 1, 0>> >>       \* X Y Z order
       ELSE IF x0 >= z0 THEN << <<1, 0, 0>>, <<1, 0, 1>> >>  \* X Z Y order
       ELSE << <<0, 0, 1>>, <<1, 0, 1>> >>                   \* Z X Y order
  ELSE IF y0 < z0 THEN << <<0, 0, 1>>, <<0, 1, 1>> >>        \* Z Y X order
       ELSE IF x0 < z0 THEN << <<0, 1, 0>>, <<0, 1, 1>> >>   \* Y Z X order
       ELSE << <<0, 1, 0>>, <<1, 1, 0>> >>                   \* Y X Z order

Corners3(off) ==
  << <<0, 0, 0>>, Order3(off[1], off[2], off[3])[1],
     Order3(off[1], off[2], off[3])[2], <<1, 1, 1>> >>

\* Offsets from corner n (0..3) in (x,y,z) coords: v - cn + n*G3.
Shift3(v, cn, n) ==
  << v[1] - FromInt(cn[1]) + FMul(FromInt(n), G3),
     v[2] - FromInt(cn[2]) + FMul(FromInt(n), G3),
     v[3] - FromInt(cn[3]) + FMul(FromInt(n), G3) >>

Disp3(off, cs) ==
  << off, Shift3(off, cs[2], 1), Shift3(off, cs[3], 2),
     Shift3(off, cs[4], 3) >>

\* _perm indices read for the corner (ii+a, jj+b, kk+d), innermost first.
Chain3(ii, jj, kk, a, b, d) ==
  << kk + d,
     jj + b + PermAt(kk + d),
     ii + a + PermAt(jj + b + PermAt(kk + d)) >>

Hash3(idx, cs) ==
  LET ii == Mask255(idx[1])
      jj == Mask255(idx[2])
      kk == Mask255(idx[3])
      h  == [n \in 1 .. 4 |->
               Chain3(ii, jj, kk, cs[n][1], cs[n][2], cs[n][3])]
  IN  [permIdx |-> h[1] \o h[2] \o h[3] \o h[4],
       gi |-> << PermAt(h[1][3]) % 12, PermAt(h[2][3]) % 12,
                 PermAt(h[3][3]) % 12, PermAt(h[4][3]) % 12 >>]

\* One corner's contribution, 3D: t = 0.6 - x*x - y*y - z*z.
Contrib3(gi, d) ==
  LET t == Q(6, 10) - FMul(d[1], d[1]) - FMul(d[2], d[2]) - FMul(d[3], d[3])
  IN  IF t < 0 THEN 0
      ELSE FMul(FMul(FMul(t, t), FMul(t, t)),
                dot3d(_grad3[gi + 1], d[1], d[2], d[3]))

Sum3(gi, disp) ==
  FMul(FromInt(32),
       Contrib3(gi[1], disp[1]) + Contrib3(gi[2], disp[2])
       + Contrib3(gi[3], disp[3]) + Contrib3(gi[4], disp[4]))

----------------------------------------------------------------------------
(* raw_noise_4d *)

F4 == FDiv(FSqrt(FromInt(5)) - FromInt(1), FromInt(4))
G4 == FDiv(FromInt(5) - FSqrt(FromInt(5)), FromInt(20))

Cell4(x, y, z, w) ==
  LET s == FMul(x + y + z + w, F4)
      i == int(x + s)
      j == int(y + s)
      k == int(z + s)
      l == int(w + s)
      t == FMul(FromInt(i + j + k + l), G4)
  IN  [skewed |-> <<x + s, y + s, z + s, w + s>>, idx |-> <<i, j, k, l>>,
       off |-> <<x - (FromInt(i) - t), y - (FromInt(j) - t),
                 z - (FromInt(k) - t), w - (FromInt(l) - t)>>]

\* Faulty variant of SimplexIndex: c2 compares x0 with w0 instead of z0.
SimplexIndexCopied(x0, y0, z0, w0) ==
  (IF x0 > y0 THEN 32 ELSE 0) + (IF x0 > w0 THEN 16 ELSE 0)
  + (IF y0 > z0 THEN 8 ELSE 0) + (IF x0 > w0 THEN 4 ELSE 0)
  + (IF y0 > w0 THEN 2 ELSE 0) + (IF z0 > w0 THEN 1 ELSE 0)

\* The 6-bit index c built from the six pairwise comparisons.
SimplexIndex(x0, y0, z0, w0) ==
  (IF x0 > y0 THEN 32 ELSE 0) + (IF x0 > z0 THEN 16 ELSE 0)
  + (IF y0 > z0 THEN 8 ELSE 0) + (IF x0 > w0 THEN 4 ELSE 0)
  + (IF y0 > w0 THEN 2 ELSE 0) + (IF z0 > w0 THEN 1 ELSE 0)

\* Faulty variant of Threshold: an axis is 1 when its entry exceeds th.
ThresholdStrict(entry, th) ==
  << IF entry[1] > th THEN 1 ELSE 0, IF entry[2] > th THEN 1 ELSE 0,
     IF entry[3] > th THEN 1 ELSE 0, IF entry[4] > th THEN 1 ELSE 0 >>

\* Integer offsets of a corner: an axis is 1 when its entry reaches th.
Threshold(entry, th) ==
  << IF entry[1] >= th THEN 1 ELSE 0, IF entry[2] >= th THEN 1 ELSE 0,
     IF entry[3] >= th THEN 1 ELSE 0, IF entry[4] >= th THEN 1 ELSE 0 >>

\* Offsets of the five corners in (i,j,k,l) coords, given c.
Corners4(c) ==
  << <<0, 0, 0, 0>>, Threshold(_simplex[c + 1], 3),
     Threshold(_simplex[c + 1], 2), Threshold(_simplex[c + 1], 1),
     <<1, 1, 1, 1>> >>

\* Offsets from corner n (0..4) in (x,y,z,w) coords: v - cn + n*G4.
Shift4(v, cn, n) ==
  << v[1] - FromInt(cn[1]) + FMul(FromInt(n), G4),
     v[2] - FromInt(cn[2]) + FMul(FromInt(n), G4),
     v[3] - FromInt(cn[3]) + FMul(FromInt(n), G4),
     v[4] - FromInt(cn[4]) + FMul(FromInt(n), G4) >>

Disp4(off, cs) ==
  << off, Shift4(off, cs[2], 1), Shift4(off, cs[3], 2),
     Shift4(off, cs[4], 3), Shift4(off, cs[5], 4) >>

\* _perm indices read for the corner (ii+a, jj+b, kk+d, ll+e), innermost
\* first.
Chain4(ii, jj, kk, ll, a, b, d, e) ==
  << ll + e,
     kk + d + PermAt(ll + e),
     jj + b + PermAt(kk + d + PermAt(ll + e)),
     ii + a + PermAt(jj + b + PermAt(kk + d + PermAt(ll + e))) >>

Hash4(idx, cs) ==
  LET ii == Mask255(idx[1])
      jj == Mask255(idx[2])
      kk == Mask255(idx[3])
      ll == Mask255(idx[4])
      h  == [n \in 1 .. 5 |->
               Chain4(ii, jj, kk, ll, cs[n][1], cs[n][2], cs[n][3], cs[n][4])]
  IN  [permIdx |-> h[1] \o h[2] \o h[3] \o h[4] \o h[5],
       gi |-> << PermAt(h[1][4]) % 32, PermAt(h[2][4]) % 32,
                 PermAt(h[3][4]) % 32, PermAt(h[4][4]) % 32,
                 PermAt(h[5][4]) % 32 >>]

\* One corner's contribution, 4D: t = 0.6 - x*x - y*y - z*z - w*w.
Contrib4(gi, d) ==
  LET t == Q(6, 10) - FMul(d[1], d[1]) - FMul(d[2], d[2])
           - FMul(d[3], d[3]) - FMul(d[4], d[4])
  IN  IF t < 0 THEN 0
      ELSE FMul(FMul(FMul(t, t), FMul(t, t)),
                dot4d(_grad4[gi + 1], d[1], d[2], d[3], d[4]))

Sum4(gi, disp) ==
  FMul(FromInt(27),
       Contrib4(gi[1], disp[1]) + Contrib4(gi[2], disp[2])
       + Contrib4(gi[3], disp[3]) + Contrib4(gi[4], disp[4])
       + Contrib4(gi[5], disp[5]))

----------------------------------------------------------------------------
(* The three steps of a raw kernel evaluation, on its locals k *)

\* Lines up to the fractional offsets: skew, cell indices, unskew.
CellStep(k) ==
  LET r == CASE k.dim = 2 -> Cell2(k.in[1], k.in[2])
             [] k.dim = 3 -> Cell3(k.in[1], k.in[2], k.in[3])
             [] k.dim = 4 -> Cell4(k.in[1], k.in[2], k.in[3], k.in[4])
  IN  [k EXCEPT !.skewed = r.skewed, !.idx = r.idx, !.off = r.off]

\* Simplex traversal order, corner offsets and hashed gradient indices.
CornersStep(k) ==
  LET c  == IF k.dim = 4
            THEN SimplexIndex(k.off[1], k.off[2], k.off[3], k.off[4]) ELSE 0
      cs == CASE k.dim = 2 -> Corners2(k.off)
              [] k.dim = 3 -> Corners3(k.off)
              [] k.dim = 4 -> Corners4(c)
      dp == CASE k.dim = 2 -> Disp2(k.off, cs)
              [] k.dim = 3 -> Disp3(k.off, cs)
              [] k.dim = 4 -> Disp4(k.off, cs)
      h  == CASE k.dim = 2 -> Hash2(k.idx, cs)
              [] k.dim = 3 -> Hash3(k.idx, cs)
              [] k.dim = 4 -> Hash4(k.idx, cs)
  IN  [k EXCEPT !.c = c, !.corners = cs, !.disp = dp,
                !.permIdx = h.permIdx, !.gi = h.gi]

\* Contributions of the corners, summed and scaled.
SumStep(k) ==
  [k EXCEPT !.val = CASE k.dim = 2 -> Sum2(k.gi, k.disp)
                      [] k.dim = 3 -> Sum3(k.gi, k.disp)
                      [] k.dim = 4 -> Sum4(k.gi, k.disp)]

KernelStart(v) == [NoLoc EXCEPT !.dim = Len(v), !.in = v]

\* The locals at the end of the raw kernel called with coordinates v
\* (raw_noise_2d, raw_noise_3d or raw_noise_4d by the length of v).
raw_noise(v) == SumStep(CornersStep(CellStep(KernelStart(v))))

----------------------------------------------------------------------------
(* octave_noise_Nd, scaled_octave_noise_Nd, scaled_raw_noise_Nd *)

\* Locals of the compositor loop; i counts the iterations made and trace
\* records, per iteration, the frequency and amplitude used and the raw value.
NoOct ==
  [i |-> 0, total |-> 0, frequency |-> 0, amplitude |-> 0,
   maxAmplitude |-> 0, trace |-> <<>>]

\* The locals before the loop.
OctaveStart(scale) ==
  [i |-> 0, total |-> 0, frequency |-> scale, amplitude |-> FromInt(1),
   maxAmplitude |-> 0, trace |-> <<>>]

\* The coordinates passed to the raw kernel: x * frequency, y * frequency...
Times(v, frequency) == [a \in 1 .. Len(v) |-> FMul(v[a], frequency)]

\* Faulty variant of OctaveStep: maxAmplitude accumulates the amplitude
\* after it was multiplied by persistence.
OctaveStepLate(st, r, persistence) ==
  [i            |-> st.i + 1,
   total        |-> st.total + FMul(r, st.amplitude),
   frequency    |-> FMul(st.frequency, FromInt(2)),
   maxAmplitude |-> st.maxAmplitude + FMul(st.amplitude, persistence),
   amplitude    |-> FMul(st.amplitude, persistence),
   trace        |-> Append(st.trace,
                      [frequency |-> st.frequency,
                       amplitude |-> st.amplitude, raw |-> r])]

\* Faulty variant of OctaveStep: the frequency is not doubled.
OctaveStepFlat(st, r, persistence) ==
  [i            |-> st.i + 1,
   total        |-> st.total + FMul(r, st.amplitude),
   frequency    |-> st.frequency,
   maxAmplitude |-> st.maxAmplitude + st.amplitude,
   amplitude    |-> FMul(st.amplitude, persistence),
   trace        |-> Append(st.trace,
                      [frequency |-> st.frequency,
                       amplitude |-> st.amplitude, raw |-> r])]

\* The loop body, given the value r the raw kernel returned.
OctaveStep(st, r, persistence) ==
  [i            |-> st.i + 1,
   total        |-> st.total + FMul(r, st.amplitude),
   frequency    |-> FMul(st.frequency, FromInt(2)),
   maxAmplitude |-> st.maxAmplitude + st.amplitude,
   amplitude    |-> FMul(st.amplitude, persistence),
   trace        |-> Append(st.trace,
                      [frequency |-> st.frequency,
                       amplitude |-> st.amplitude, raw |-> r])]

\* for i in range(octaves): the loop from locals st on.
RECURSIVE OctaveLoop(_, _, _, _)
OctaveLoop(st, octaves, persistence, v) ==
  IF st.i >= octaves THEN st
  ELSE OctaveLoop(
         OctaveStep(st, raw_noise(Times(v, st.frequency)).val, persistence),
         octaves, persistence, v)

\* octave_noise_2d / _3d / _4d by the length of v: the outcome of
\* total / maxAmplitude after the loop.
octave_noise(octaves, persistence, scale, v) ==
  LET st == OctaveLoop(OctaveStart(scale), octaves, persistence, v)
  IN  PyDiv(st.total, st.maxAmplitude)

\* Faulty variant of Remap: the two bounds are added where they are
\* subtracted and subtracted where they are added.
RemapSwapped(r, loBound, hiBound) ==
  FDiv(FMul(r, hiBound + loBound), FromInt(2))
  + FDiv(hiBound - loBound, FromInt(2))

\* r * (hiBound - loBound) / 2 + (hiBound + loBound) / 2
Remap(r, loBound, hiBound) ==
  FDiv(FMul(r, hiBound - loBound), FromInt(2))
  + FDiv(hiBound + loBound, FromInt(2))

----------------------------------------------------------------------------
(* Arguments *)

\* Coordinates on a small grid around the origin, in steps of 1/2.
Grid == { Q(n, 2) : n \in -GridSpan .. GridSpan }

\* Coordinates inside one cell, in steps of 1/8: every ranking of four
\* offsets, ties included, occurs among them.
Fine == { Q(n, 8) : n \in 0 .. 3 }

\* Coordinates of the compositor calls.
OctCoord == { -Q(3, 4), Q(5, 4) }

Octaves == -1 .. MaxOctaves
Persistences == { Q(1, 2), FromInt(1), -FromInt(1) }
Scales == { Q(1, 2), FromInt(1) }

\* <<loBound, hiBound>>: unit range, identity range, mirrored range.
Ranges == { <<0, FromInt(1)>>, <<-FromInt(1), FromInt(1)>>,
            <<FromInt(2), -FromInt(1)>> }

\* Coordinates far from the origin, given in 1024ths.  Their lattice cells:
\* a base cell next to the origin, the cells 256 further along one axis,
\* the mirrored base cell and the cell 256 before it, and a cell whose
\* masked indices are 255 and 139 (_perm[140] is 255); in 2D also the cell
\* (-1, 139), whose first index is masked to 255.
P(n) == Q(n, 1024)
Wrap2 ==
  { <<P(112), P(420)>>, <<P(206859), P(-54978)>>, <<P(-55285), P(207166)>>,
    <<P(-112), P(-420)>>, <<P(-206859), P(54978)>>,
    <<P(175972), P(57495)>>, <<P(-31259), P(113023)>> }
Wrap3 ==
  { <<P(-34), P(273), P(478)>>, <<P(218419), P(-43418), P(-43213)>>,
    <<P(-43725), P(218726), P(-43213)>>, <<P(-43725), P(-43418), P(218931)>>,
    <<P(34), P(-273), P(-478)>>, <<P(-218419), P(43418), P(43213)>>,
    <<P(150409), P(150613), P(32034)>> }
Wrap4 ==
  { <<P(-78), P(127), P(331), P(536)>>,
    <<P(225838), P(-36101), P(-35896), P(-35691)>>,
    <<P(-36306), P(226043), P(-35896), P(-35691)>>,
    <<P(-36306), P(-36101), P(226248), P(-35691)>>,
    <<P(-36306), P(-36101), P(-35896), P(226453)>>,
    <<P(78), P(-127), P(-331), P(-536)>>,
    <<P(-225838), P(36101), P(35896), P(35691)>>,
    <<P(133114), P(133319), P(133523), P(14944)>> }

Coords2 == (Grid \X Grid) \cup Wrap2
Coords3 == (Grid \X Grid \X Grid) \cup Wrap3
Coords4 ==
  (Grid \X Grid \X Grid \X Grid) \cup (Fine \X Fine \X Fine \X Fine)
  \cup Wrap4

OctCoords2 == OctCoord \X OctCoord
OctCoords3 == OctCoord \X OctCoord \X OctCoord
OctCoords4 == OctCoord \X OctCoord \X OctCoord \X OctCoord

----------------------------------------------------------------------------
(* The caller and the positions in the code *)

RawKernels == {"raw_noise_2d", "raw_noise_3d", "raw_noise_4d"}
ScaledRaws ==
  {"scaled_raw_noise_2d", "scaled_raw_noise_3d", "scaled_raw_noise_4d"}
OctaveFns == {"octave_noise_2d", "octave_noise_3d", "octave_noise_4d"}
ScaledOctaveFns ==
  {"scaled_octave_noise_2d", "scaled_octave_noise_3d",
   "scaled_octave_noise_4d"}

Init ==
  /\ pc = "idle"
  /\ fn = ""
  /\ args = <<>>
  /\ loc = NoLoc
  /\ oct = NoOct
  /\ ret = NoRet
  /\ prev = NoLoc

\* raw_noise_Nd(v) or scaled_raw_noise_Nd(lh, v) is entered.
EnterKernel(f, a, v) ==
  /\ pc' = "cell"
  /\ fn' = f
  /\ args' = a
  /\ loc' = KernelStart(v)
  /\ UNCHANGED <<oct, ret, prev>>

\* A compositor is entered: the locals before the loop.
EnterOctave(f, a, scale) ==
  /\ pc' = "loop"
  /\ fn' = f
  /\ args' = a
  /\ oct' = OctaveStart(scale)
  /\ UNCHANGED <<loc, ret, prev>>

RawNoise2d ==
  /\ pc = "idle"
  /\ \E v \in Coords2 : EnterKernel("raw_noise_2d", v, v)
RawNoise3d ==
  /\ pc = "idle"
  /\ \E v \in Coords3 : EnterKernel("raw_noise_3d", v, v)
RawNoise4d ==
  /\ pc = "idle"
  /\ \E v \in Coords4 : EnterKernel("raw_noise_4d", v, v)

ScaledRawNoise2d ==
  /\ pc = "idle"
  /\ \E lh \in Ranges, v \in Coords2 :
       EnterKernel("scaled_raw_noise_2d", lh \o v, v)
ScaledRawNoise3d ==
  /\ pc = "idle"
  /\ \E lh \in Ranges, v \in OctCoords3 :
       EnterKernel("scaled_raw_noise_3d", lh \o v, v)
ScaledRawNoise4d ==
  /\ pc = "idle"
  /\ \E lh \in Ranges, v \in OctCoords4 :
       EnterKernel("scaled_raw_noise_4d", lh \o v, v)

OctaveNoise2d ==
  /\ pc = "idle"
  /\ \E o \in Octaves, p \in Persistences, s \in Scales, v \in OctCoords2 :
       EnterOctave("octave_noise_2d", <<o, p, s>> \o v, s)
OctaveNoise3d ==
  /\ pc = "idle"
  /\ \E o \in Octaves, p \in Persistences, s \in Scales, v \in OctCoords3 :
       EnterOctave("octave_noise_3d", <<o, p, s>> \o v, s)
OctaveNoise4d ==
  /\ pc = "idle"
  /\ \E o \in Octaves, p \in Persistences, s \in Scales, v \in OctCoords4 :
       EnterOctave("octave_noise_4d", <<o, p, s>> \o v, s)

ScaledOctaveNoise2d ==
  /\ pc = "idle"
  /\ \E o \in Octaves, p \in Persistences, s \in Scales, lh \in Ranges,
        v \in OctCoords2 :
       EnterOctave("scaled_octave_noise_2d", <<o, p, s>> \o lh \o v, s)
ScaledOctaveNoise3d ==
  /\ pc = "idle"
  /\ \E o \in Octaves, p \in Persistences, s \in Scales, lh \in Ranges,
        v \in OctCoords3 :
       EnterOctave("scaled_octave_noise_3d", <<o, p, s>> \o lh \o v, s)
ScaledOctaveNoise4d ==
  /\ pc = "idle"
  /\ \E o \in Octaves, p \in Persistences, s \in Scales, lh \in Ranges,
        v \in OctCoords4 :
       EnterOctave("scaled_octave_noise_4d", <<o, p, s>> \o lh \o v, s)

\* The arguments by name.
ArgOctaves == args[1]
ArgPersistence == args[2]
ArgScale == args[3]
ArgBounds ==
  IF fn \in ScaledRaws THEN <<args[1], args[2]>> ELSE <<args[4], args[5]>>
ArgCoords ==
  LET skip == CASE fn \in RawKernels -> 0
                [] fn \in ScaledRaws -> 2
                [] fn \in OctaveFns -> 3
                [] fn \in ScaledOctaveFns -> 5
  IN  SubSeq(args, skip + 1, Len(args))

\* The raw kernel: skew, cell indices, unskew, fractional offsets.
KernelCell ==
  /\ pc = "cell"
  /\ loc' = CellStep(loc)
  /\ pc' = "corners"
  /\ UNCHANGED <<fn, args, oct, ret, prev>>

\* The raw kernel: traversal order, corner offsets, gradient hashes.
KernelCorners ==
  /\ pc = "corners"
  /\ loc' = CornersStep(loc)
  /\ pc' = "sum"
  /\ UNCHANGED <<fn, args, oct, ret, prev>>

\* The raw kernel: corner contributions and the return; the value goes to
\* the caller (raw_noise_Nd), the remap (scaled_raw_noise_Nd) or the loop.
KernelSum ==
  /\ pc = "sum"
  /\ loc' = SumStep(loc)
  /\ IF fn \in RawKernels \/ KernelOutcome(loc').kind # "value"
     THEN pc' = "done" /\ ret' = KernelOutcome(loc')
     ELSE /\ pc' = IF fn \in ScaledRaws THEN "remap" ELSE "accumulate"
          /\ ret' = ret
  /\ UNCHANGED <<fn, args, oct, prev>>

\* for i in range(octaves): call the raw kernel or leave the loop.
LoopHead ==
  /\ pc = "loop"
  /\ IF oct.i < ArgOctaves
     THEN pc' = "cell" /\ loc' = KernelStart(Times(ArgCoords, oct.frequency))
     ELSE pc' = "divide" /\ loc' = loc
  /\ UNCHANGED <<fn, args, oct, ret, prev>>

\* The rest of the loop body.
Accumulate ==
  /\ pc = "accumulate"
  /\ oct' = OctaveStep(oct, loc.val, ArgPersistence)
  /\ pc' = "loop"
  /\ UNCHANGED <<fn, args, loc, ret, prev>>

\* return total / maxAmplitude
Divide ==
  /\ pc = "divide"
  /\ ret' = PyDiv(oct.total, oct.maxAmplitude)
  /\ pc' = IF fn \in ScaledOctaveFns /\ ret'.kind = "value"
           THEN "remap" ELSE "done"
  /\ UNCHANGED <<fn, args, loc, oct, prev>>

\* The scaled wrappers: remap the value the inner call returned.
RemapStep ==
  /\ pc = "remap"
  /\ ret' = Value(Remap(IF fn \in ScaledRaws THEN loc.val ELSE ret.val,
                        ArgBounds[1], ArgBounds[2]))
  /\ pc' = "done"
  /\ UNCHANGED <<fn, args, loc, oct, prev>>

\* The caller drops the result.
Return ==
  /\ pc = "done"
  /\ pc' = "idle"
  /\ fn' = ""
  /\ args' = <<>>
  /\ loc' = NoLoc
  /\ oct' = NoOct
  /\ ret' = NoRet
  /\ UNCHANGED prev

Steps ==
  KernelCell \/ KernelCorners \/ KernelSum \/ LoopHead \/ Accumulate
  \/ Divide \/ RemapStep

Next ==
  \/ RawNoise2d \/ RawNoise3d \/ RawNoise4d
  \/ ScaledRawNoise2d \/ ScaledRawNoise3d \/ ScaledRawNoise4d
  \/ OctaveNoise2d \/ OctaveNoise3d \/ OctaveNoise4d
  \/ ScaledOctaveNoise2d \/ ScaledOctaveNoise3d \/ ScaledOctaveNoise4d
  \/ Steps
  \/ Return

Spec == Init /\ [][Next]_vars

----------------------------------------------------------------------------
(* A caller that makes raw kernel queries one after the other and keeps   *)
(* the locals of the previous one, to compare two queries.                *)

PairRawNoise2d ==
  /\ pc = "idle"
  /\ \E v \in Wrap2 : EnterKernel("raw_noise_2d", v, v)
PairRawNoise3d ==
  /\ pc = "idle"
  /\ \E v \in Wrap3 : EnterKernel("raw_noise_3d", v, v)
PairRawNoise4d ==
  /\ pc = "idle"
  /\ \E v \in Wrap4 : EnterKernel("raw_noise_4d", v, v)

ReturnKeep ==
  /\ pc = "done"
  /\ pc' = "idle"
  /\ fn' = ""
  /\ args' = <<>>
  /\ loc' = NoLoc
  /\ oct' = NoOct
  /\ ret' = NoRet
  /\ prev' = loc

NextPair ==
  \/ PairRawNoise2d \/ PairRawNoise3d \/ PairRawNoise4d
  \/ KernelCell \/ KernelCorners \/ KernelSum
  \/ ReturnKeep

SpecPair == Init /\ [][NextPair]_vars

----------------------------------------------------------------------------
(* Properties *)

Done(f) == pc = "done" /\ fn = f

\* The kernel in progress has computed its cell indices / its corners.
HasCell == loc.idx # <<>>
HasCorners == loc.gi # <<>>

\* C1: every lattice cell index (i, j, k, l) computed by the raw kernels is
\* the floor of its skewed coordinate (x+s, y+s, ...): the conversion rounds
\* toward negative infinity, also for negative non-integral coordinates.
C1_CellIndexIsFloor ==
  HasCell => \A a \in 1 .. loc.dim : loc.idx[a] = Floor(loc.skewed[a])

\* C2 as stated: a compositor (or its scaled wrapper) called with
\* octaves <= 0 returns an infinite or not-a-number value and raises nothing.
C2_NonPositiveOctavesReturnInfOrNan ==
  (pc = "done" /\ fn \in OctaveFns \cup ScaledOctaveFns /\ ArgOctaves <= 0)
    => ret.kind \in {"inf", "nan"}

\* C2 amended: a compositor (or its scaled wrapper) called with octaves <= 0
\* runs no loop iteration, divides 0.0 by 0.0, and the ZeroDivisionError
\* raised by that division propagates to the caller; no value is returned.
C2_NonPositiveOctavesRaise ==
  (pc = "done" /\ fn \in OctaveFns \cup ScaledOctaveFns /\ ArgOctaves <= 0)
    => /\ ret.kind = "ZeroDivisionError"
       /\ oct.i = 0 /\ oct.total = 0 /\ oct.maxAmplitude = 0

C2_Witness ==
  /\ Done("scaled_octave_noise_4d") /\ ArgOctaves = -1
  /\ ret.kind = "ZeroDivisionError"

\* C3: while hashing the corners, every _perm access uses an index in
\* 0..511 (masked cell index + offset + _perm value never exceeds 511), and
\* every gradient index is in 0..11 for _grad3 (2D, 3D), 0..31 for _grad4.
C3_TableIndicesInBounds ==
  HasCorners =>
    /\ \A n \in 1 .. Len(loc.permIdx) : loc.permIdx[n] \in 0 .. 511
    /\ \A n \in 1 .. Len(loc.gi) :
         loc.gi[n] \in 0 .. (IF loc.dim = 4 THEN 31 ELSE 11)

\* A negative cell index whose masked value is 255, and the access
\* _perm[511] = _perm[255 + 1 + 255].
C3_Witness ==
  /\ HasCorners /\ loc.dim = 2
  /\ loc.idx[1] < 0 /\ Mask255(loc.idx[1]) = 255
  /\ \E n \in 1 .. Len(loc.permIdx) : loc.permIdx[n] = 511

\* The cells of k1 and k2 differ by exactly 256 on one axis, are equal on
\* the others, and their simplex corner offsets are the same.
Shifted256(k1, k2) ==
  /\ k1.dim # 0 /\ k1.dim = k2.dim
  /\ k1.corners = k2.corners
  /\ \E a \in 1 .. k1.dim :
       /\ Abs(k1.idx[a] - k2.idx[a]) = 256
       /\ \A b \in (1 .. k1.dim) \ {a} : k1.idx[b] = k2.idx[b]

\* C4: permutation periodicity: two queries whose cell indices differ by
\* exactly 256 on one axis and are equal on the others, with the same corner
\* offsets, have identical hashed gradient indices gi0..giN.
C4_Periodicity ==
  (pc = "done" /\ Shifted256(prev, loc)) => prev.gi = loc.gi

C4_Witness ==
  /\ pc = "done" /\ Shifted256(prev, loc) /\ loc.dim = 4
  /\ loc.idx[2] = 256 /\ prev.idx[2] = 0

\* C5: range remap: each scaled_raw_noise_Nd(lo, hi, ...) returns exactly
\* r*(hi-lo)/2 + (hi+lo)/2 for the value r that raw_noise_Nd returns at the
\* same coordinates, and each scaled_octave_noise_Nd returns the same formula
\* of the value octave_noise_Nd returns for the same parameters (an exception
\* of octave_noise_Nd is passed on); hi >= lo is not validated.
C5_RangeRemap ==
  LET lo == ArgBounds[1]
      hi == ArgBounds[2]
      o  == octave_noise(ArgOctaves, ArgPersistence, ArgScale, ArgCoords)
  IN  /\ (pc = "done" /\ fn \in ScaledRaws) =>
           /\ ret.kind = "value"
           /\ ret.val = FDiv(FMul(raw_noise(ArgCoords).val, hi - lo), FromInt(2))
                         + FDiv(hi + lo, FromInt(2))
      /\ (pc = "done" /\ fn \in ScaledOctaveFns) =>
           IF o.kind = "value"
           THEN /\ ret.kind = "value"
                /\ ret.val = FDiv(FMul(o.val, hi - lo), FromInt(2))
                              + FDiv(hi + lo, FromInt(2))
           ELSE ret = o

\* A scaled compositor that returned a non-zero value for hi < lo.
C5_Witness ==
  /\ Done("scaled_octave_noise_3d") /\ ArgBounds[2] < ArgBounds[1]
  /\ ArgOctaves = 2 /\ ret.kind = "value"
  /\ ret.val # FDiv(ArgBounds[1] + ArgBounds[2], FromInt(2))

\* C6: single-octave identity: octave_noise_Nd(1, p, s, coords) equals
\* raw_noise_Nd(coords * s) for every persistence p and scale s.
C6_SingleOctaveIdentity ==
  (pc = "done" /\ fn \in OctaveFns /\ ArgOctaves = 1) =>
    ret = Value(raw_noise(Times(ArgCoords, ArgScale)).val)

C6_Witness ==
  /\ Done("octave_noise_3d") /\ ArgOctaves = 1
  /\ ArgPersistence = Q(1, 2) /\ ArgScale = Q(1, 2) /\ ret.val # 0

\* The rank of axis a among the offsets: the number of axes whose offset is
\* smaller, an equal offset of an earlier axis counting as smaller.
Rank(off, a) ==
  Cardinality({ b \in 1 .. Len(off) :
                  off[b] < off[a] \/ (off[b] = off[a] /\ b < a) })

\* C7 as stated: in raw_noise_4d the _simplex entry selected by c gives each
\* axis the rank of its offset, and the integer offset of an axis at corner
\* k (1, 2, 3) is 1 exactly when k is at least the axis's table entry.
C7_OffsetWhenCornerReachesEntry ==
  (HasCorners /\ loc.dim = 4) =>
    \A a \in 1 .. 4 :
      /\ _simplex[loc.c + 1][a] = Rank(loc.off, a)
      /\ \A k \in 1 .. 3 :
           (loc.corners[k + 1][a] = 1) <=> (k >= _simplex[loc.c + 1][a])

\* C7 amended: the entry gives each axis the rank of its offset counted from
\* the smallest (0) to the largest (3), and the integer offset of an axis at
\* corner k (1, 2, 3) is 1 exactly when k is at least 4 minus the entry
\* (the entry is at least 4 - k): the largest offset steps first.
C7_OffsetWhenCornerReachesFourMinusEntry ==
  (HasCorners /\ loc.dim = 4) =>
    \A a \in 1 .. 4 :
      /\ _simplex[loc.c + 1][a] = Rank(loc.off, a)
      /\ \A k \in 1 .. 3 :
           (loc.corners[k + 1][a] = 1) <=> (k >= 4 - _simplex[loc.c + 1][a])

\* x0 < w0 < z0 < y0: the entry is <<0, 3, 2, 1>>.
C7_Witness ==
  /\ HasCorners /\ loc.dim = 4 /\ loc.c = 11
  /\ loc.corners[2] = <<0, 1, 0, 0>> /\ loc.corners[4] = <<0, 1, 1, 1>>

\* persistence^k and 2^k, by repeated multiplication.
RECURSIVE Pow(_, _)
Pow(b, k) == IF k = 0 THEN FromInt(1) ELSE FMul(Pow(b, k - 1), b)
RECURSIVE Pow2(_)
Pow2(k) == IF k = 0 THEN 1 ELSE 2 * Pow2(k - 1)

\* The raw kernel value of octave k (0-based) for the current arguments.
OctaveRaw(k) ==
  raw_noise(Times(ArgCoords, FMul(ArgScale, FromInt(Pow2(k))))).val

\* Sum over k = 0 .. n-1 of persistence^k * raw(coords * scale * 2^k), and
\* of persistence^k.
RECURSIVE WeightedSum(_)
WeightedSum(n) ==
  IF n = 0 THEN 0
  ELSE WeightedSum(n - 1) + FMul(Pow(ArgPersistence, n - 1), OctaveRaw(n - 1))
RECURSIVE AmplitudeSum(_)
AmplitudeSum(n) ==
  IF n = 0 THEN 0 ELSE AmplitudeSum(n - 1) + Pow(ArgPersistence, n - 1)

\* C8: for octaves >= 1, octave_noise_Nd returns
\* (sum of persistence^k * raw_noise_Nd(coords * scale * 2^k)) divided by
\* (sum of persistence^k), k = 0 .. octaves-1: the loop runs exactly octaves
\* iterations, the frequency starts at scale and doubles, the amplitude
\* starts at 1 and is multiplied by persistence, and the divisor is the sum
\* of the amplitudes used (when that sum is 0 the division raises).
C8_OctaveSum ==
  (pc = "done" /\ fn \in OctaveFns /\ ArgOctaves >= 1) =>
    /\ oct.i = ArgOctaves
    /\ Len(oct.trace) = ArgOctaves
    /\ \A n \in 1 .. ArgOctaves :
         /\ oct.trace[n].frequency = FMul(ArgScale, FromInt(Pow2(n - 1)))
         /\ oct.trace[n].amplitude = Pow(ArgPersistence, n - 1)
         /\ oct.trace[n].raw = OctaveRaw(n - 1)
    /\ oct.maxAmplitude = AmplitudeSum(ArgOctaves)
    /\ IF AmplitudeSum(ArgOctaves) = 0
       THEN ret.kind = "ZeroDivisionError"
       ELSE ret = Value(FDiv(WeightedSum(ArgOctaves),
                             AmplitudeSum(ArgOctaves)))

\* Three octaves with persistence 1/2 whose raw values are not all zero.
C8_Witness ==
  /\ Done("octave_noise_4d") /\ ArgOctaves = 3 /\ ArgPersistence = Q(1, 2)
  /\ oct.trace[2].raw # 0 /\ oct.trace[3].raw # 0 /\ ret.val # 0

\* The number of axes of a corner whose integer offset is 1.
Ones(cn) == Cardinality({ a \in 1 .. Len(cn) : cn[a] = 1 })

\* The corners of k form a chain from all-zeros to all-ones that adds exactly
\* one axis per step, in order of non-increasing fractional offset.
CornerChain(k) ==
  /\ Len(k.corners) = k.dim + 1
  /\ \A n \in 1 .. k.dim + 1 :
       /\ \A a \in 1 .. k.dim : k.corners[n][a] \in {0, 1}
       /\ Ones(k.corners[n]) = n - 1
  /\ \A n \in 1 .. k.dim : \A a \in 1 .. k.dim :
       k.corners[n][a] <= k.corners[n + 1][a]
  /\ \A n \in 1 .. k.dim - 1 : \A a, b \in 1 .. k.dim :
       ( /\ k.corners[n][a] = 0 /\ k.corners[n + 1][a] = 1
         /\ k.corners[n + 1][b] = 0 /\ k.corners[n + 2][b] = 1 )
       => k.off[a] >= k.off[b]

\* C9: in raw_noise_4d, for every combination of offsets x0, y0, z0, w0,
\* ties included, c selects a _simplex entry that is a permutation of
\* {0,1,2,3}, never the all-zero sentinel; the second, third and fourth
\* corners have exactly 1, 2 and 3 axes at 1, each contains the previous
\* one, and the axes are added in order of non-increasing offset.
C9_SimplexEntryIsPermutation ==
  (HasCorners /\ loc.dim = 4) =>
    /\ loc.c \in 0 .. 63
    /\ { _simplex[loc.c + 1][a] : a \in 1 .. 4 } = 0 .. 3
    /\ CornerChain(loc)

\* A tie between two offsets that are the largest, and another tie.
C9_Witness ==
  /\ HasCorners /\ loc.dim = 4
  /\ loc.off[1] = loc.off[3] /\ loc.off[2] = loc.off[4]
  /\ loc.off[1] > loc.off[2]

\* C10: in raw_noise_3d, ties included, the second corner has exactly one
\* axis at 1, an axis of maximal offset, and the third corner has exactly two
\* axes at 1: that axis plus an axis of maximal offset among the other two.
\* In raw_noise_2d the middle corner is (1,0) when x0 > y0 and (0,1)
\* otherwise.  In both the corners form a chain from all-zeros to all-ones
\* adding one axis per step in order of non-increasing offset.
C10_CaseSplitOrdersCorners ==
  /\ (HasCorners /\ loc.dim = 3) =>
       /\ CornerChain(loc)
       /\ \E a \in 1 .. 3 :
            /\ loc.corners[2] = [n \in 1 .. 3 |-> IF n = a THEN 1 ELSE 0]
            /\ \A b \in 1 .. 3 : loc.off[a] >= loc.off[b]
            /\ \E b \in (1 .. 3) \ {a} :
                 /\ loc.corners[3] =
                      [n \in 1 .. 3 |-> IF n \in {a, b} THEN 1 ELSE 0]
                 /\ \A d \in (1 .. 3) \ {a} : loc.off[b] >= loc.off[d]
  /\ (HasCorners /\ loc.dim = 2) =>
       /\ CornerChain(loc)
       /\ loc.corners[2] =
            IF loc.off[1] > loc.off[2] THEN <<1, 0>> ELSE <<0, 1>>

\* The Z X Y branch with a tie: y0 = x0 < z0.
C10_Witness ==
  /\ HasCorners /\ loc.dim = 3
  /\ loc.off[1] = loc.off[2] /\ loc.off[2] < loc.off[3]
  /\ loc.corners[2] = <<0, 0, 1>> /\ loc.corners[3] = <<1, 0, 1>>

\* All corner offset vectors in {0,1}^n.
Offsets(n) == [1 .. n -> {0, 1}]

\* The last _perm index read when the cell `cell` hashes its corner at
\* offset o: the offset is added after masking the cell index.
ChainEnd(cell, o) ==
  LET m == [a \in 1 .. Len(cell) |-> Mask255(cell[a])]
  IN  CASE Len(cell) = 2 -> Chain2(m[1], m[2], o[1], o[2])[2]
        [] Len(cell) = 3 -> Chain3(m[1], m[2], m[3], o[1], o[2], o[3])[3]
        [] Len(cell) = 4 ->
             Chain4(m[1], m[2], m[3], m[4], o[1], o[2], o[3], o[4])[4]

\* The cell whose origin is the corner at offset o of `cell`.
CornerCell(cell, o) == [a \in 1 .. Len(cell) |-> cell[a] + o[a]]

NoOffset(n) == [a \in 1 .. n |-> 0]

\* C11: the gradient hash of a lattice point does not depend on which cell
\* computes it: for the cell of every kernel evaluation (negative indices
\* and masked value 255 included) and every corner offset vector in {0,1}^N,
\* the chained lookup that adds the offset after masking reads the same
\* _perm value as the lookup made by the cell whose origin is that corner
\* (offset 0 after masking index + offset); the indices the kernel actually
\* read for its corners are those chained lookups; and _perm has 512
\* entries with _perm[256+k] = _perm[k] for every k in 0..255.
C11_HashIndependentOfCell ==
  /\ Len(_perm) = 512
  /\ \A k \in 0 .. 255 : PermAt(256 + k) = PermAt(k)
  /\ HasCorners =>
       /\ \A o \in Offsets(loc.dim) :
            PermAt(ChainEnd(loc.idx, o)) =
              PermAt(ChainEnd(CornerCell(loc.idx, o), NoOffset(loc.dim)))
       /\ \A n \in 1 .. Len(loc.corners) :
            /\ loc.permIdx[n * loc.dim] = ChainEnd(loc.idx, loc.corners[n])
            /\ loc.gi[n] =
                 PermAt(ChainEnd(CornerCell(loc.idx, loc.corners[n]),
                                 NoOffset(loc.dim)))
                   % (IF loc.dim = 4 THEN 32 ELSE 12)

\* A 4D kernel evaluation in a negative cell whose masked index is 255 on
\* some axis, at a corner that steps along that axis: the cell reads the
\* upper half of _perm (index >= 256) where the corner's own cell reads
\* the lower half.
C11_Witness ==
  /\ HasCorners /\ loc.dim = 4
  /\ \E a \in 1 .. 4, n \in 1 .. 5 :
       /\ loc.idx[a] < 0 /\ Mask255(loc.idx[a]) = 255
       /\ loc.corners[n][a] = 1
       /\ ChainEnd(loc.idx, loc.corners[n]) >= 256
       /\ ChainEnd(CornerCell(loc.idx, loc.corners[n]), NoOffset(4)) < 256

=============================================================================
